---- MODULE Spec2Model ----
(***************************************************************************)
(* Model of featuremapper/analysis/hypercolumns.py: PowerSpectrumAnalysis. *)
(*                                                                         *)
(* One analysis is a call of _process on a preference map: the density     *)
(* check, the fetch of the power spectrum, and                             *)
(* estimate_hypercolumn_distance (wavenumber_spectrum, the curve fit in    *)
(* its try block, the estimate).  Analyses share the object, and with it   *)
(* the attribute _density and the parameters p.                            *)
(*                                                                         *)
(* Real numbers are exact rationals <<n, d>> (d > 0, lowest terms); the    *)
(* rounding of IEEE doubles is not modelled.  The module is Python 2 code: *)
(* dim / 2 on integers is floor division.  Maps and spectra are square.    *)
(* scipy's curve_fit is outside the module: it may raise on any call, must *)
(* raise when p0 is not six numbers (KaschubeFit takes a0..a5), and may    *)
(* otherwise return any a1.                                                *)
(***************************************************************************)
EXTENDS Integers, Sequences, FiniteSets, TLC

(* ------------------------------ bounds -------------------------------- *)
\* Largest side length of a power spectrum / preference map.
MaxN == 7
\* Largest extent |r-l| or |t-b| of the bounds of a preference map.
MaxExtent == 2
\* Largest side length used when two analyses share one object.
ParMaxN == 4

(* ---------------------------- rationals ------------------------------- *)
Abs(x) == IF x < 0 THEN -x ELSE x

RECURSIVE GCD(_, _)
GCD(a, b) == IF b = 0 THEN a ELSE GCD(b, a % b)

Rat(n, d) ==
    LET s == IF d < 0 THEN -1 ELSE 1
        g == GCD(Abs(n), Abs(d))
    IN  <<(s * n) \div g, (s * d) \div g>>

FromInt(i) == <<i, 1>>
RAdd(a, b) == Rat(a[1] * b[2] + b[1] * a[2], a[2] * b[2])
RSub(a, b) == Rat(a[1] * b[2] - b[1] * a[2], a[2] * b[2])
RDiv(a, b) == Rat(a[1] * b[2], a[2] * b[1])
RLt(a, b)  == a[1] * b[2] < b[1] * a[2]
RLeq(a, b) == a[1] * b[2] <= b[1] * a[2]

\* the sum of a list, by halves
RECURSIVE RSum(_)
RSum(s) ==
    IF s = <<>> THEN FromInt(0)
    ELSE IF Len(s) = 1 THEN s[1]
    ELSE LET h == Len(s) \div 2
         IN  RAdd(RSum(SubSeq(s, 1, h)), RSum(SubSeq(s, h + 1, Len(s))))

\* np.mean of a non-empty list
Mean(s) == RDiv(RSum(s), FromInt(Len(s)))

\* the greatest element of a non-empty list
RMax(s) == s[CHOOSE i \in 1..Len(s) : \A j \in 1..Len(s) : RLeq(s[j], s[i])]

(* ------------------------ wavenumber_spectrum -------------------------- *)
\* spectrum.shape of a square array held as a sequence of rows
Shape(spectrum) == Len(spectrum)

\* spectrum[:None if dim % 2 else -1, :None if _dim % 2 else -1]
Slice(spectrum) ==
    LET dim == Shape(spectrum)
        k   == IF dim % 2 # 0 THEN dim ELSE dim - 1
    IN  [i \in 1..k |-> [j \in 1..k |-> spectrum[i][j]]]

\* spectrum = 1 - spectrum
Invert(spectrum) ==
    [i \in 1..Len(spectrum) |->
        [j \in 1..Len(spectrum) |-> RSub(FromInt(1), spectrum[i][j])]]

\* pixel_bins = range(0, (dim / 2) + 1)
PixelBins(dim) == [i \in 1..((dim \div 2) + 1) |-> i - 1]

DigitizeRight(d2, bins) ==
    Cardinality({i \in 1..Len(bins) : bins[i] * bins[i] < d2})

\* np.digitize(d, bins) for increasing bins: the number of edges e <= d.
\* d is given by its square d2 = x**2 + y**2, so e <= d iff e*e <= d2.
Digitize(d2, bins) ==
    Cardinality({i \in 1..Len(bins) : bins[i] * bins[i] <= d2})

\* zip(bin_allocation, flat_spectrum), both flattened row-major over
\* np.mgrid[lower:upper, lower:upper]
SpectrumBins(spectrum, dim) ==
    LET lower == -(dim \div 2)
        bins  == PixelBins(dim)
    IN  [n \in 1..(dim * dim) |->
            LET i == (n - 1) \div dim
                j == (n - 1) % dim
                x == lower + i
                y == lower + j
            IN  <<Digitize(x * x + y * y, bins), spectrum[i + 1][j + 1]>>]

\* tuple order of (bin, value) pairs
PairLeq(a, b) == \/ a[1] < b[1]
                 \/ a[1] = b[1] /\ RLeq(a[2], b[2])

\* F(v), with v evaluated once, before F is applied
Bind(F(_), v) == CHOOSE r \in {F(x) : x \in {v}} : TRUE

\* for each distinct pair k of s: how many elements are < k, how many <= k
Ranks(s) ==
    [k \in {s[n] : n \in 1..Len(s)} |->
        <<Cardinality({n \in 1..Len(s) : ~PairLeq(k, s[n])}),
          Cardinality({n \in 1..Len(s) : PairLeq(s[n], k)})>>]

\* sorted(spectrum_bins): the pairs in ascending order; position i holds the
\* pair k with fewer than i elements below it and at least i not above it
Sorted(s) ==
    Bind(LAMBDA ranks :
            [i \in 1..Len(s) |->
                CHOOSE k \in DOMAIN ranks : ranks[k][1] < i /\ i <= ranks[k][2]],
         Ranks(s))

\* itertools.groupby(sorted, key = bin): <<values, bin>> per run of equal keys
GroupBy(s) ==
    LET starts == {n \in 1..Len(s) : n = 1 \/ s[n][1] # s[n - 1][1]}
        start(i) == CHOOSE n \in starts : Cardinality({m \in starts : m <= n}) = i
        end(i) == IF i = Cardinality(starts) THEN Len(s) ELSE start(i + 1) - 1
    IN  [i \in 1..Cardinality(starts) |->
            <<[k \in 1..(end(i) - start(i) + 1) |-> s[start(i) + k - 1][2]],
              s[start(i)][1]>>]

HistValues(spectrum, dim) ==
    Bind(LAMBDA bins : Bind(LAMBDA sorted : GroupBy(sorted), Sorted(bins)),
         SpectrumBins(spectrum, dim))

\* self.p.averaging_fn(power)
Averaging(fn, power) == IF fn = "max" THEN RMax(power) ELSE Mean(power)

\* What wavenumber_spectrum returns for a square spectrum: the averaged
\* powers, the bin edges, whether the warning was issued and whether the
\* closing assertion holds.
WavenumberSpectrum(spectrum0, fn) ==
    LET even     == Shape(spectrum0) % 2 = 0
        sliced   == IF even THEN Slice(spectrum0) ELSE spectrum0
        dim      == Shape(sliced)
        spectrum == Invert(sliced)
        bins     == PixelBins(dim)
        hist     == HistValues(spectrum, dim)
    IN  [averaged_powers |-> [i \in 1..Len(hist) |-> Averaging(fn, hist[i][1])],
         pixel_bins      |-> bins,
         warned          |-> even,
         assert_ok       |-> Len(hist) = Len(bins)]

(* ------------------------------ state --------------------------------- *)
Threads == {1, 2}

VARIABLES
    density,         \* self._density, an attribute of the shared object
    p,               \* self.p: the init_fit and averaging_fn parameters
    pc,              \* per analysis: position in _process
    preference,      \* per analysis: data.shape and bounds extent of the map
    source,          \* per analysis: the array Image.FFT_Power / fft_power yields
    power_spectrum,  \* per analysis: power_spectrum.data once fetched
    amplitudes,      \* per analysis: averaged powers of wavenumber_spectrum
    edges,           \* per analysis: pixel_bins of wavenumber_spectrum
    seed,            \* per analysis: p0 as handed to curve_fit
    solver,          \* per analysis: "not_called", "raised" or "returned"
    fit,             \* per analysis: local fit of estimate_hypercolumn_distance
    valid_fit,       \* per analysis: local valid_fit
    ret_fit,         \* per analysis: second component of the returned triple
    info,            \* per analysis: third component of the returned triple
    exc,             \* per analysis: the exception that ended the analysis
    log              \* per analysis: messages sent to self.warning

vars == <<density, p, pc, preference, source, power_spectrum, amplitudes, edges,
          seed, solver, fit, valid_fit, ret_fit, info, exc, log>>

\* Python's None where a dict is expected
NoneRec == [none |-> TRUE]
\* a missing attribute / unset local holding a number or a list
Unset == <<>>

SlicingWarning == "Slicing data to nearest odd dimensions for centered FFT."

(* ------------------------------ inputs -------------------------------- *)
Vals == {<<0, 1>>, <<1, 2>>}

MkSpectrum(n, base, r, c, v) ==
    [i \in 1..n |-> [j \in 1..n |-> IF i = r /\ j = c THEN v ELSE base]]

Spectra(n) ==
    {MkSpectrum(n, base, r, c, v) : base \in Vals, r \in 1..n, c \in 1..n, v \in Vals}

\* init_fit = dict(a0=0.35, a1=3.8, a2=1.3, a3=0.15, a4=-0.003, a5=0)
GCALFit == [a0 |-> <<7, 20>>, a1 |-> <<19, 5>>, a2 |-> <<13, 10>>,
            a3 |-> <<3, 20>>, a4 |-> <<-3, 1000>>, a5 |-> <<0, 1>>]

Params == [init_fit : {NoneRec, GCALFit}, averaging_fn : {"mean", "max"}]

\* a1 as the solver may report it
A1Vals == {<<-1, 1>>, <<0, 1>>, <<1, 2>>, <<1, 1>>, <<3, 2>>, <<5, 2>>}

Preferences(n) ==
    [shape : {<<n, n>>}, w : 1..MaxExtent, h : 1..MaxExtent]

(* ------------------------------ _process ------------------------------ *)
\* xdensity = dim1 / abs(r-l), with float bounds
xdensity(pref) == RDiv(FromInt(pref.shape[1]), FromInt(pref.w))

ydensity_of_x_axis(pref) == RDiv(FromInt(pref.shape[1]), FromInt(pref.w))

\* ydensity = dim2 / abs(t-b)
ydensity(pref) == RDiv(FromInt(pref.shape[2]), FromInt(pref.h))

\* if xdensity != ydensity: raise Exception(...)
DensityMismatch(t) ==
    /\ pc[t] = "density"
    /\ xdensity(preference[t]) # ydensity(preference[t])
    /\ pc' = [pc EXCEPT ![t] = "raised"]
    /\ exc' = [exc EXCEPT ![t] = "Exception"]
    /\ UNCHANGED <<density, p, preference, source, power_spectrum, amplitudes,
                   edges, seed, solver, fit, valid_fit, ret_fit, info, log>>

\* self._density = xdensity
StoreDensity(t) ==
    /\ pc[t] = "density"
    /\ xdensity(preference[t]) = ydensity(preference[t])
    /\ density' = xdensity(preference[t])
    /\ pc' = [pc EXCEPT ![t] = "fetch"]
    /\ UNCHANGED <<p, preference, source, power_spectrum, amplitudes, edges,
                   seed, solver, fit, valid_fit, ret_fit, info, exc, log>>

\* power_spectrum = self.search(tree, 'Image.FFT_Power')[0] or fft_power(preference)
FetchSpectrum(t) ==
    /\ pc[t] = "fetch"
    /\ power_spectrum' = [power_spectrum EXCEPT ![t] = source[t]]
    /\ pc' = [pc EXCEPT ![t] = "bin"]
    /\ UNCHANGED <<density, p, preference, source, amplitudes, edges, seed,
                   solver, fit, valid_fit, ret_fit, info, exc, log>>

(* --------------------- estimate_hypercolumn_distance ------------------ *)
\* amplitudes, edges = self.wavenumber_spectrum(power_spectrum)
BinSpectrum(t) ==
    /\ pc[t] = "bin"
    /\ \E ws \in {WavenumberSpectrum(power_spectrum[t], p.averaging_fn)} :
           /\ log' = [log EXCEPT ![t] =
                        IF ws.warned THEN Append(@, SlicingWarning) ELSE @]
           /\ IF ws.assert_ok
              THEN /\ amplitudes' = [amplitudes EXCEPT ![t] = ws.averaged_powers]
                   /\ edges' = [edges EXCEPT ![t] = ws.pixel_bins]
                   /\ pc' = [pc EXCEPT ![t] = "fit"]
                   /\ exc' = exc
              ELSE /\ pc' = [pc EXCEPT ![t] = "raised"]
                   /\ exc' = [exc EXCEPT ![t] = "AssertionError"]
                   /\ UNCHANGED <<amplitudes, edges>>
    /\ UNCHANGED <<density, p, preference, source, power_spectrum, seed, solver,
                   fit, valid_fit, ret_fit, info>>

\* np.argmax: 0-based index of the first maximum of a non-empty list
ArgMax(s) ==
    (CHOOSE i \in 1..Len(s) :
        /\ \A j \in 1..Len(s) : RLeq(s[j], s[i])
        /\ \A j \in 1..(i - 1) : RLt(s[j], s[i])) - 1

\* np.argmax(amplitudes[1:]) + 1
KmaxArgmax(amps) == ArgMax(Tail(amps)) + 1

\* the positional coefficients of KaschubeFit after k
NumCoeffs == 6

\* init_fit as handed to curve_fit; curve_fit takes np.atleast_1d(p0), so a
\* dict is an array of one object
InitFit(amps, init_fit) ==
    LET kmax_argmax == KmaxArgmax(amps)
        baseline    == Mean(amps)
        height      == RSub(amps[kmax_argmax + 1], baseline)
    IN  IF init_fit = NoneRec
        THEN <<height, FromInt(kmax_argmax), FromInt(4), baseline,
               FromInt(0), FromInt(0)>>
        ELSE <<init_fit>>

\* curve_fit calls function(xdata, *params): KaschubeFit takes a0..a5
SolverAccepts(p0) == Len(p0) = NumCoeffs

ValidFitNonNegative(f) == RLeq(FromInt(0), f.a1)

\* valid_fit = (fit['a1'] > 0)
ValidFit(f) == RLt(FromInt(0), f.a1)

\* np.argmax of the empty amplitudes[1:] raises inside the try block
FitArgmaxFails(t) ==
    /\ pc[t] = "fit"
    /\ Len(amplitudes[t]) < 2
    /\ valid_fit' = [valid_fit EXCEPT ![t] = FALSE]
    /\ pc' = [pc EXCEPT ![t] = "estimate"]
    /\ UNCHANGED <<density, p, preference, source, power_spectrum, amplitudes,
                   edges, seed, solver, fit, ret_fit, info, exc, log>>

\* curve_fit raises (bad seed, singular fit, maxfev exceeded, ...)
FitSolverRaises(t) ==
    /\ pc[t] = "fit"
    /\ Len(amplitudes[t]) >= 2
    /\ seed' = [seed EXCEPT ![t] = InitFit(amplitudes[t], p.init_fit)]
    /\ solver' = [solver EXCEPT ![t] = "raised"]
    /\ valid_fit' = [valid_fit EXCEPT ![t] = FALSE]
    /\ pc' = [pc EXCEPT ![t] = "estimate"]
    /\ UNCHANGED <<density, p, preference, source, power_spectrum, amplitudes,
                   edges, fit, ret_fit, info, exc, log>>

\* curve_fit returns six coefficients; only a1 is constrained by nothing
FitSolverReturns(t) ==
    /\ pc[t] = "fit"
    /\ Len(amplitudes[t]) >= 2
    /\ LET p0 == InitFit(amplitudes[t], p.init_fit)
       IN  /\ SolverAccepts(p0)
           /\ \E a1 \in A1Vals :
                LET f == [a0 |-> p0[1], a1 |-> a1, a2 |-> p0[3],
                          a3 |-> p0[4], a4 |-> p0[5], a5 |-> p0[6]]
                IN  /\ fit' = [fit EXCEPT ![t] = f]
                    /\ valid_fit' = [valid_fit EXCEPT ![t] = ValidFit(f)]
           /\ seed' = [seed EXCEPT ![t] = p0]
    /\ solver' = [solver EXCEPT ![t] = "returned"]
    /\ pc' = [pc EXCEPT ![t] = "estimate"]
    /\ UNCHANGED <<density, p, preference, source, power_spectrum, amplitudes,
                   edges, ret_fit, info, exc, log>>

UnitsAlwaysDivided(spectrum, kmax) == RDiv(FromInt(Shape(spectrum)), kmax)

UnitsOfSlicedSpectrum(spectrum, kmax) ==
    LET dim == Shape(Slice(spectrum))
    IN  IF RLeq(kmax, FromInt(1)) THEN FromInt(dim) ELSE RDiv(FromInt(dim), kmax)

\* (dim, _) = power_spectrum.shape
\* units_per_hypercolumn = dim if (kmax <= 1.0) else dim / float(kmax)
UnitsPerHypercolumn(spectrum, kmax) ==
    LET dim == Shape(spectrum)
    IN  IF RLeq(kmax, FromInt(1)) THEN FromInt(dim) ELSE RDiv(FromInt(dim), kmax)

\* kmax_argmax = np.argmax(amplitudes[1:]) + 1 raises on a one-bin profile
EstimateRaises(t) ==
    /\ pc[t] = "estimate"
    /\ Len(amplitudes[t]) < 2
    /\ pc' = [pc EXCEPT ![t] = "raised"]
    /\ exc' = [exc EXCEPT ![t] = "ValueError"]
    /\ UNCHANGED <<density, p, preference, source, power_spectrum, amplitudes,
                   edges, seed, solver, fit, valid_fit, ret_fit, info, log>>

EstimateReturns(t) ==
    /\ pc[t] = "estimate"
    /\ Len(amplitudes[t]) >= 2
    /\ LET kmax_argmax == KmaxArgmax(amplitudes[t])
           kmax  == IF valid_fit[t] THEN fit[t].a1 ELSE FromInt(kmax_argmax)
           units == UnitsPerHypercolumn(power_spectrum[t], kmax)
       IN  IF density = Unset
           THEN /\ pc' = [pc EXCEPT ![t] = "raised"]
                /\ exc' = [exc EXCEPT ![t] = "AttributeError"]
                /\ UNCHANGED <<ret_fit, info>>
           ELSE /\ ret_fit' = [ret_fit EXCEPT ![t] =
                                 IF valid_fit[t] THEN fit[t] ELSE NoneRec]
                /\ info' = [info EXCEPT ![t] =
                              [kmax         |-> kmax,
                               k_delta      |-> RSub(kmax, FromInt(kmax_argmax)),
                               units_per_hc |-> units,
                               cycles       |-> RDiv(density, units)]]
                /\ pc' = [pc EXCEPT ![t] = "done"]
                /\ exc' = exc
    /\ UNCHANGED <<density, p, preference, source, power_spectrum, amplitudes,
                   edges, seed, solver, fit, valid_fit, log>>

(* --------------------------- specifications --------------------------- *)
Blank == [t \in Threads |-> Unset]

InitLocals ==
    /\ power_spectrum = Blank
    /\ amplitudes = Blank
    /\ edges = Blank
    /\ seed = Blank
    /\ solver = [t \in Threads |-> "not_called"]
    /\ fit = [t \in Threads |-> NoneRec]
    /\ valid_fit = [t \in Threads |-> FALSE]
    /\ ret_fit = [t \in Threads |-> NoneRec]
    /\ info = [t \in Threads |-> NoneRec]
    /\ exc = [t \in Threads |-> "none"]
    /\ log = [t \in Threads |-> <<>>]

IdlePreference == [shape |-> <<1, 1>>, w |-> 1, h |-> 1]

\* One analysis of any map on a fresh object.
Init ==
    /\ density = Unset
    /\ p \in Params
    /\ \E n \in 1..MaxN :
         /\ \E pref \in Preferences(n) :
              preference = [t \in Threads |-> IF t = 1 THEN pref ELSE IdlePreference]
         /\ \E s \in Spectra(n) :
              source = [t \in Threads |-> IF t = 1 THEN s ELSE Unset]
    /\ pc = [t \in Threads |-> IF t = 1 THEN "density" ELSE "idle"]
    /\ InitLocals

\* The spectrum used when two analyses are interleaved: one dim corner cell
ParSpectrum(n) ==
    [i \in 1..n |-> [j \in 1..n |->
        IF i = 1 /\ j = 1 THEN <<1, 2>> ELSE <<0, 1>>]]

\* Two analyses of two maps interleaved on one object with default parameters.
InitPar ==
    /\ density = Unset
    /\ p = [init_fit |-> NoneRec, averaging_fn |-> "mean"]
    /\ \E n1 \in 1..ParMaxN, n2 \in 1..ParMaxN :
       \E pref1 \in Preferences(n1), pref2 \in Preferences(n2) :
         /\ preference = [t \in Threads |-> IF t = 1 THEN pref1 ELSE pref2]
         /\ source = [t \in Threads |-> ParSpectrum(IF t = 1 THEN n1 ELSE n2)]
    /\ pc = [t \in Threads |-> "density"]
    /\ InitLocals

Step(t) ==
    \/ DensityMismatch(t)
    \/ StoreDensity(t)
    \/ FetchSpectrum(t)
    \/ BinSpectrum(t)
    \/ FitArgmaxFails(t)
    \/ FitSolverRaises(t)
    \/ FitSolverReturns(t)
    \/ EstimateRaises(t)
    \/ EstimateReturns(t)

Next == \E t \in Threads : Step(t)

Spec == Init /\ [][Next]_vars

SpecPar == InitPar /\ [][Next]_vars

(* ------------------------------ claims -------------------------------- *)
Analyses == {t \in Threads : pc[t] # "idle"}

\* floor(sqrt(n))
ISqrt(n) == CHOOSE k \in 0..n : k * k <= n /\ n < (k + 1) * (k + 1)

\* floor of the Euclidean distance of cell <<i, j>> from the centre cell of
\* an array of odd side dim
FloorDistance(dim, i, j) ==
    LET c == (dim \div 2) + 1
    IN  ISqrt((i - c) * (i - c) + (j - c) * (j - c))

\* the sum of the inverted values of a set of cells, value by value
InvertedSum(arr, cells) ==
    LET vals == {arr[c[1]][c[2]] : c \in cells}
        count(v) == Cardinality({c \in cells : arr[c[1]][c[2]] = v})
        term(v) == Rat((v[2] - v[1]) * count(v), v[2])
        RECURSIVE Total(_)
        Total(vs) == IF vs = {} THEN <<0, 1>>
                     ELSE LET v == CHOOSE v \in vs : TRUE
                          IN  RAdd(term(v), Total(vs \ {v}))
    IN  Total(vals)

\* the aggregation fn of the inverted values of a non-empty set of cells
Aggregate(fn, arr, cells) ==
    IF fn = "max"
    THEN CHOOSE v \in {RSub(<<1, 1>>, arr[c[1]][c[2]]) : c \in cells} :
            \A c \in cells : RLeq(RSub(<<1, 1>>, arr[c[1]][c[2]]), v)
    ELSE LET total == InvertedSum(arr, cells)
         IN  Rat(total[1], total[2] * Cardinality(cells))

\* the cells of bin i: floor distance i, the last bin open-ended or not
BinCells(dim, i, open) ==
    {c \in (1..dim) \X (1..dim) :
        LET d == FloorDistance(dim, c[1], c[2])
        IN  d = i \/ (open /\ i = dim \div 2 /\ d > i)}

ProfileIs(amps, fn, arr, open) ==
    LET dim == Len(arr)
    IN  /\ Len(amps) = (dim \div 2) + 1
        /\ \A i \in 0..(dim \div 2) :
              amps[i + 1] = Aggregate(fn, arr, BinCells(dim, i, open))

EdgesAre(e, dim) ==
    /\ Len(e) = (dim \div 2) + 1
    /\ \A i \in 0..(dim \div 2) : e[i + 1] = i

IsOdd(n) == n % 2 = 1

\* the raw peak: the first bin k >= 1 of greatest power, bin 0 excluded
RawPeak(amps) ==
    CHOOSE k \in 1..(Len(amps) - 1) :
        /\ \A j \in 1..(Len(amps) - 1) : ~RLt(amps[k + 1], amps[j + 1])
        /\ \A j \in 1..(k - 1) : amps[j + 1] # amps[k + 1]

\* the density of the map of analysis t
OwnDensity(t) == Rat(preference[t].shape[1], preference[t].w)

\* C1 as stated: for odd N the binner returns floor(N/2)+1 values with edges
\* 0..floor(N/2), and bin i is the aggregation of exactly the inverted cells
\* whose floor(distance from the centre) is i.
C1_BinsByFloorDistance ==
    \A t \in Analyses :
        IsOdd(Len(source[t])) =>
            /\ exc[t] # "AssertionError"
            /\ pc[t] = "fit" =>
                  /\ EdgesAre(edges[t], Len(source[t]))
                  /\ ProfileIs(amplitudes[t], p.averaging_fn, source[t], FALSE)

\* C1 amended: as C1, but the last bin floor(N/2) aggregates every cell whose
\* floor(distance) is at least floor(N/2) (the corner regions included).
C1_BinsLastBinOpen ==
    \A t \in Analyses :
        IsOdd(Len(source[t])) =>
            /\ exc[t] # "AssertionError"
            /\ pc[t] = "fit" =>
                  /\ EdgesAre(edges[t], Len(source[t]))
                  /\ ProfileIs(amplitudes[t], p.averaging_fn, source[t], TRUE)

C1_Witness ==
    /\ pc[1] = "fit"
    /\ Len(source[1]) = 7
    /\ source[1][1][1] # source[1][1][2]

\* C2: whenever the solver was invoked and the analysis has ended, the
\* estimate is returned; the returned fit is not None exactly when the solver
\* returned with a1 > 0, and then kmax = a1 and k_delta = a1 - raw peak;
\* otherwise kmax is the raw peak and k_delta = 0.
C2_FitOrFallback ==
    \A t \in Analyses :
        /\ (solver[t] # "not_called" /\ pc[t] \in {"done", "raised"}) =>
               pc[t] = "done"
        /\ (ret_fit[t] # NoneRec) =>
               (pc[t] = "done" /\ solver[t] = "returned")
        /\ pc[t] = "done" =>
             LET raw == <<RawPeak(amplitudes[t]), 1>>
             IN  IF solver[t] = "returned" /\ RLt(<<0, 1>>, fit[t].a1)
                 THEN /\ ret_fit[t] = fit[t]
                      /\ info[t].kmax = fit[t].a1
                      /\ info[t].k_delta = RSub(fit[t].a1, raw)
                 ELSE /\ ret_fit[t] = NoneRec
                      /\ info[t].kmax = raw
                      /\ info[t].k_delta = <<0, 1>>

C2_Witness ==
    \E t \in Analyses :
        /\ pc[t] = "done"
        /\ solver[t] = "returned"
        /\ fit[t].a1 = <<0, 1>>
        /\ RawPeak(amplitudes[t]) = 2

\* C3: once a square spectrum of any side N >= 1 has been handed to the
\* estimator, the analysis ends with an estimate, never with an exception;
\* kmax is non-negative, and is the raw peak when no fit is returned.
C3_EstimateAlwaysReturned ==
    \A t \in Analyses :
        (power_spectrum[t] # Unset /\ pc[t] \in {"done", "raised"}) =>
            /\ pc[t] = "done"
            /\ RLeq(<<0, 1>>, info[t].kmax)
            /\ ret_fit[t] = NoneRec =>
                  info[t].kmax = <<RawPeak(amplitudes[t]), 1>>

\* C4: in every returned estimate units_per_hc is the side length when
\* kmax <= 1 and side length / kmax when kmax > 1, and cycles is the density
\* of the analysed map divided by units_per_hc.
C4_UnitsAndCycles ==
    \A t \in Analyses :
        pc[t] = "done" =>
            LET side == <<Len(source[t]), 1>>
                kmax == info[t].kmax
            IN  /\ RLeq(kmax, <<1, 1>>) => info[t].units_per_hc = side
                /\ RLt(<<1, 1>>, kmax) =>
                      info[t].units_per_hc = Rat(side[1] * kmax[2], kmax[1])
                /\ info[t].cycles = RDiv(OwnDensity(t), info[t].units_per_hc)

C4_Witness ==
    \E t \in Analyses :
        /\ pc[t] = "done"
        /\ ret_fit[t] # NoneRec
        /\ info[t].kmax = <<1, 1>>
        /\ Len(source[t]) = 5

\* C5: when the x- and y-density of the map differ, the analysis raises
\* before the power spectrum is fetched and before any binning or fitting,
\* and returns no estimate.
C5_MismatchRaisesFirst ==
    \A t \in Analyses :
        (preference[t].shape[1] * preference[t].h
            # preference[t].shape[2] * preference[t].w) =>
            /\ pc[t] \in {"density", "raised"}
            /\ pc[t] = "raised" => exc[t] = "Exception"
            /\ power_spectrum[t] = Unset
            /\ amplitudes[t] = Unset
            /\ solver[t] = "not_called"
            /\ info[t] = NoneRec

C5_Witness ==
    \E t \in Analyses :
        /\ pc[t] = "raised"
        /\ exc[t] = "Exception"
        /\ preference[t].w # preference[t].h

\* C6: the cycles of every returned estimate is computed from the density of
\* its own map, also when two analyses are interleaved on one object.
C6_CyclesFromOwnDensity ==
    \A t \in Analyses :
        pc[t] = "done" =>
            info[t].cycles = RDiv(OwnDensity(t), info[t].units_per_hc)

\* C7: the solver is seeded with the six values a0..a5 of init_fit, in that
\* order, when init_fit is given, and with [power at the raw peak - mean
\* power, raw peak, 4.0, mean power, 0, 0] when it is None.
C7_SolverSeed ==
    \A t \in Analyses :
        solver[t] # "not_called" =>
            /\ Len(seed[t]) = 6
            /\ IF p.init_fit = NoneRec
               THEN LET raw  == RawPeak(amplitudes[t])
                        mean == Rat(RSum(amplitudes[t])[1],
                                    RSum(amplitudes[t])[2] * Len(amplitudes[t]))
                    IN  seed[t] = <<RSub(amplitudes[t][raw + 1], mean), <<raw, 1>>,
                                    <<4, 1>>, mean, <<0, 1>>, <<0, 1>>>>
               ELSE seed[t] = <<p.init_fit.a0, p.init_fit.a1, p.init_fit.a2,
                                p.init_fit.a3, p.init_fit.a4, p.init_fit.a5>>

\* C9: every truncation of an even-sized spectrum and every fit failure that
\* falls back to the raw peak leaves a message on the log while the estimate
\* is still returned.
C9_RecoveriesLogged ==
    \A t \in Analyses :
        /\ (amplitudes[t] # Unset /\ ~IsOdd(Len(source[t]))) =>
               \E i \in 1..Len(log[t]) : log[t][i] = SlicingWarning
        /\ (pc[t] = "done" /\ ret_fit[t] = NoneRec) =>
               \E i \in 1..Len(log[t]) : log[t][i] # SlicingWarning

\* the array of an even-sided spectrum without its last row and column
DropLast(arr) ==
    [i \in 1..(Len(arr) - 1) |-> [j \in 1..(Len(arr) - 1) |-> arr[i][j]]]

\* C10: for an even side N the profile is that of the (N-1) x (N-1) array
\* without the last row and column, with floor((N-1)/2)+1 bins, the caller's
\* array is left as it was, and units_per_hc is N when kmax <= 1 and N / kmax
\* otherwise.
C10_EvenSideTruncated ==
    \A t \in Analyses :
        (~IsOdd(Len(source[t])) /\ amplitudes[t] # Unset) =>
            /\ power_spectrum[t] = source[t]
            /\ Len(amplitudes[t]) = ((Len(source[t]) - 1) \div 2) + 1
            /\ pc[t] = "fit" =>
                  ProfileIs(amplitudes[t], p.averaging_fn, DropLast(source[t]), TRUE)
            /\ pc[t] = "done" =>
                  LET n    == Len(source[t])
                      kmax == info[t].kmax
                  IN  info[t].units_per_hc =
                          IF RLeq(kmax, <<1, 1>>) THEN <<n, 1>>
                          ELSE Rat(n * kmax[2], kmax[1])

C10_Witness ==
    \E t \in Analyses :
        /\ pc[t] = "done"
        /\ Len(source[t]) = 4
        /\ RLt(<<1, 1>>, info[t].kmax)
        /\ source[t][4][4] # source[t][1][1]
====
